---- MODULE Spec2Model ----
(***************************************************************************)
(* A model of housing-search: the Express backend (backend/server.js) that *)
(* proxies the listings provider, filters the listings by the "bargain"    *)
(* criteria and tags them, and the values its pure functions compute.      *)
(*                                                                         *)
(* Time is a line of ticks; a day has TicksPerDay ticks.  The local time   *)
(* zone is taken to have a constant offset, so a local calendar day is     *)
(* TicksPerDay ticks long.  Calendar fields follow the Gregorian calendar. *)
(***************************************************************************)
EXTENDS Integers, Sequences, FiniteSets, TLC

VARIABLES
  fn, args, result,          \* the pure-function harness: last call made
  apiKey, clock, pc, searchType, upstream, fetchCount,
  listings, filteredProperties, formattedProperties, responses,
  reqQueryType,              \* req.query.type of the request
  \* the frontend (App.jsx): its state hooks, and the fetches awaited
  uiProperties,              \* properties
  uiFilteredProperties,      \* filteredProperties
  loading, error, minPrice, maxPrice, selectedPropertyType, selectedTag,
  inFlight

fnVars == <<fn, args, result>>

reqVars == <<apiKey, clock, pc, searchType, upstream, fetchCount, listings,
             filteredProperties, formattedProperties, responses,
             reqQueryType>>

uiVars == <<uiProperties, uiFilteredProperties, loading, error, minPrice,
            maxPrice, selectedPropertyType, selectedTag, inFlight>>

vars == <<fnVars, reqVars, uiVars>>

(***************************************************************************)
(* Bounds of the model.                                                    *)
(***************************************************************************)
\* ticks in a day: the resolution of the clock
TicksPerDay == 2
\* the year whose 1 January 00:00 is tick 0
EpochYear == 2023
\* longest batch of listings handed to filterProperties
MaxBatch == 2
\* largest price drawn for originalPrice, soldPrice and listPrice
MaxPrice == 4
\* how many ticks the clock may advance while one request is handled
MaxElapsed == 2

(***************************************************************************)
(* JavaScript values.  A field is absent (undefined or null) or holds a    *)
(* number, or a string that parses to an instant or does not.              *)
(***************************************************************************)
Absent == [kind |-> "absent", v |-> 0]

Num(n) == [kind |-> "num", v |-> n]

\* a date string that new Date() parses to the instant t
DateStr(t) == [kind |-> "date", v |-> t]

\* a non-empty string that new Date() turns into an Invalid Date
BadDateStr == [kind |-> "baddate", v |-> 0]

NaN == [kind |-> "nan", v |-> 0]

\* JavaScript truthiness of a field value
Truthy(x) == x.kind # "absent" /\ ~(x.kind = "num" /\ x.v = 0)

\* a || b
OrElse(a, b) == IF Truthy(a) THEN a ELSE b

(***************************************************************************)
(* The Date object: calendar fields of an instant and the constructors     *)
(* the code uses.  Months are 0..11 as in JavaScript.                      *)
(***************************************************************************)
IsLeap(y) == (y % 4 = 0 /\ y % 100 # 0) \/ y % 400 = 0

DaysInYear(y) == IF IsLeap(y) THEN 366 ELSE 365

DaysInMonth(y, m) ==
  IF m = 1 THEN (IF IsLeap(y) THEN 29 ELSE 28)
  ELSE IF m \in {3, 5, 8, 10} THEN 30 ELSE 31

RECURSIVE DaysBeforeYear(_)
\* days from 1 January of EpochYear to 1 January of y (negative before it)
DaysBeforeYear(y) ==
  IF y = EpochYear THEN 0
  ELSE IF y > EpochYear THEN DaysBeforeYear(y - 1) + DaysInYear(y - 1)
  ELSE DaysBeforeYear(y + 1) - DaysInYear(y)

RECURSIVE DaysBeforeMonth(_, _)
DaysBeforeMonth(y, m) ==
  IF m = 0 THEN 0 ELSE DaysBeforeMonth(y, m - 1) + DaysInMonth(y, m - 1)

\* the day number of year y, month m, day-of-month d; d may run past the
\* month's end (or be below 1) and then carries into the neighbouring months
DayNumber(y, m, d) == DaysBeforeYear(y) + DaysBeforeMonth(y, m) + (d - 1)

RECURSIVE YearFrom(_, _)
YearFrom(day, y) ==
  IF day < DaysBeforeYear(y) THEN YearFrom(day, y - 1)
  ELSE IF day >= DaysBeforeYear(y + 1) THEN YearFrom(day, y + 1)
  ELSE y

RECURSIVE MonthFrom(_, _, _)
MonthFrom(day, y, m) ==
  IF day >= DayNumber(y, m, 1) + DaysInMonth(y, m) THEN MonthFrom(day, y, m + 1)
  ELSE m

DayOf(t) == t \div TicksPerDay

TimeOfDay(t) == t % TicksPerDay

getFullYear(t) == YearFrom(DayOf(t), EpochYear)

getMonth(t) == MonthFrom(DayOf(t), getFullYear(t), 0)

getDate(t) == DayOf(t) - DayNumber(getFullYear(t), getMonth(t), 1) + 1

\* new Date(y, m, d): local midnight of that day
NewDate(y, m, d) == DayNumber(y, m, d) * TicksPerDay

\* date.setDate(d): the same year, month and time of day, day-of-month d
setDate(t, d) ==
  DayNumber(getFullYear(t), getMonth(t), d) * TicksPerDay + TimeOfDay(t)

\* an instant given by its calendar fields
At(y, m, d, tick) == DayNumber(y, m, d) * TicksPerDay + tick

(***************************************************************************)
(* Strings are sequences of characters, so that toLowerCase() and          *)
(* includes() are computed rather than assumed.                            *)
(***************************************************************************)
UpperCase == <<"A", "D", "E", "I", "L", "O", "S", "T">>

LowerCase == <<"a", "d", "e", "i", "l", "o", "s", "t">>

toLowerChar(c) ==
  IF \E i \in 1..Len(UpperCase) : UpperCase[i] = c
  THEN LowerCase[CHOOSE i \in 1..Len(UpperCase) : UpperCase[i] = c]
  ELSE c

toLowerCase(s) == [i \in 1..Len(s) |-> toLowerChar(s[i])]

includes(s, sub) ==
  \E i \in 0..(Len(s) - Len(sub)) : SubSeq(s, i + 1, i + Len(sub)) = sub

\* the literal 'estate' of the classifier
EstateWord == <<"e", "s", "t", "a", "t", "e">>

\* a description: absent, a string, or a truthy value that is not a string
NoText == [kind |-> "absent", s |-> <<>>]

Text(s) == [kind |-> "str", s |-> s]

NonString == [kind |-> "nonstr", s |-> <<>>]

(***************************************************************************)
(* A raw listing of the provider.  kind "null" is a null entry of the      *)
(* batch.  hasTimestamps / hasDetails say whether the sub-record exists;   *)
(* reading a field through ?. of a missing sub-record gives undefined.     *)
(***************************************************************************)
Base ==
  [kind |-> "object",
   simpleDaysOnMarket |-> Absent, listDate |-> Absent,
   hasTimestamps |-> TRUE,
   terminatedDate |-> Absent, possessionDate |-> Absent,
   conditionalExpiryDate |-> Absent, closedDate |-> Absent,
   originalPrice |-> Absent, soldPrice |-> Absent, listPrice |-> Absent,
   price |-> Absent,
   hasDetails |-> TRUE, description |-> NoText,
   hasMap |-> FALSE, latitude |-> Absent, longitude |-> Absent]

NullEntry == [Base EXCEPT !.kind = "null"]

\* property.timestamps?.<field>
Timestamp(property, field) ==
  IF property.hasTimestamps THEN property[field] ELSE Absent

\* property.details?.description || ''
descriptionOf(property) ==
  LET d == IF property.hasDetails THEN property.description ELSE NoText
  IN  IF d.kind = "absent" \/ (d.kind = "str" /\ d.s = <<>>) THEN Text(<<>>) ELSE d

\* x ? new Date(x) : null
toDate(x) == IF Truthy(x) THEN x ELSE Absent

\* a comparison of two Date objects (or null); one with an Invalid Date is false
DateGE(a, t) == a.kind = "date" /\ a.v >= t

DateLE(a, t) == a.kind = "date" /\ a.v <= t

(***************************************************************************)
(* The values both getBargainTags and filterProperties compute from the    *)
(* clock reading `now`.                                                    *)
(***************************************************************************)
twoMonthsInDays == 60

ThirtyDays == 30

\* (a variant: a fixed offset of 365 days, the time of day kept)
oneYearAgo_fixedOffset(now) == now - 365 * TicksPerDay

\* new Date(now.getFullYear() - 1, now.getMonth(), now.getDate())
oneYearAgo(now) == NewDate(getFullYear(now) - 1, getMonth(now), getDate(now))

\* thirtyDaysFromNow = new Date(now); setDate(getDate() + 30)
thirtyDaysFromNow(now) == setDate(now, getDate(now) + ThirtyDays)

\* (a variant: || in place of the null/undefined test, so that an explicit 0
\* falls through to listDate)
daysOnMarket_truthy(property, now) ==
  IF Truthy(property.simpleDaysOnMarket) THEN property.simpleDaysOnMarket
  ELSE IF Truthy(property.listDate)
       THEN (IF property.listDate.kind = "date"
             THEN Num((now - property.listDate.v) \div TicksPerDay)
             ELSE NaN)
       ELSE Num(0)

\* simpleDaysOnMarket if not null/undefined, else whole days since listDate, else 0
daysOnMarket(property, now) ==
  IF property.simpleDaysOnMarket.kind # "absent" THEN property.simpleDaysOnMarket
  ELSE IF Truthy(property.listDate)
       THEN (IF property.listDate.kind = "date"
             THEN Num((now - property.listDate.v) \div TicksPerDay)
             ELSE NaN)
       ELSE Num(0)

\* (a variant: ?? in place of ||, so that a price of 0 counts as present)
originalPrice_nullish(property) ==
  IF property.originalPrice.kind # "absent" THEN property.originalPrice
  ELSE property.soldPrice

\* property.originalPrice || property.soldPrice
originalPrice(property) == OrElse(property.originalPrice, property.soldPrice)

(***************************************************************************)
(* getBargainTags: the seven tag conditions, in the order of the code.     *)
(***************************************************************************)
tagLongTimeNoSold(property, now) ==
  LET d == daysOnMarket(property, now)
  IN  d.kind = "num" /\ d.v >= twoMonthsInDays

tagReposted(property, now) ==
  LET terminatedDate == toDate(Timestamp(property, "terminatedDate"))
  IN  Truthy(terminatedDate) /\ DateGE(terminatedDate, oneYearAgo(now))

tagSellingAtALoss(property) ==
  LET op == originalPrice(property)
  IN  /\ Truthy(op)
      /\ Truthy(property.listPrice)
      /\ property.listPrice.v > 0
      /\ property.listPrice.v < op.v

\* (a variant: the factor 2 left out)
tagSellingAtHugeProfit_noFactor(property) ==
  LET op == originalPrice(property)
  IN  /\ Truthy(op)
      /\ Truthy(property.listPrice)
      /\ property.listPrice.v > 0
      /\ property.listPrice.v >= op.v

tagSellingAtHugeProfit(property) ==
  LET op == originalPrice(property)
  IN  /\ Truthy(op)
      /\ Truthy(property.listPrice)
      /\ property.listPrice.v > 0
      /\ property.listPrice.v >= op.v * 2

\* (a variant: the upper bound exclusive)
tagQuicky_exclusive(property, now) ==
  LET possessionDate == toDate(Timestamp(property, "possessionDate"))
  IN  /\ Truthy(possessionDate)
      /\ possessionDate.kind = "date"
      /\ possessionDate.v < thirtyDaysFromNow(now)
      /\ DateGE(possessionDate, now)

tagQuicky(property, now) ==
  LET possessionDate == toDate(Timestamp(property, "possessionDate"))
  IN  /\ Truthy(possessionDate)
      /\ DateLE(possessionDate, thirtyDaysFromNow(now))
      /\ DateGE(possessionDate, now)

tagLastDealFellThrough(property) ==
  /\ Truthy(Timestamp(property, "conditionalExpiryDate"))
  /\ ~Truthy(Timestamp(property, "closedDate"))

tagEstateSell(property) ==
  includes(toLowerCase(descriptionOf(property).s), EstateWord)

\* whether evaluating the classifier on this entry throws a TypeError: a field
\* read of null, or toLowerCase() of a description that is not a string
Throws(property) ==
  property.kind = "null" \/ descriptionOf(property).kind = "nonstr"

Push(cond, tag) == IF cond THEN <<tag>> ELSE <<>>

\* getBargainTags(property), with `now` the clock reading of its first line
getBargainTags(property, now) ==
     Push(tagLongTimeNoSold(property, now), "long time no sold")
  \o Push(tagReposted(property, now), "reposted")
  \o Push(tagSellingAtALoss(property), "selling at a loss")
  \o Push(tagSellingAtHugeProfit(property), "selling at huge profit")
  \o Push(tagQuicky(property, now), "quicky")
  \o Push(tagLastDealFellThrough(property), "last deal fell through")
  \o Push(tagEstateSell(property), "estate sell")

(***************************************************************************)
(* filterProperties: the seven criteria of the filter callback.            *)
(***************************************************************************)
onMarket2Months(property, now) ==
  LET d == daysOnMarket(property, now)
  IN  d.kind = "num" /\ d.v >= twoMonthsInDays

hasTerminatedListing(property, now) ==
  LET terminatedDate == toDate(Timestamp(property, "terminatedDate"))
  IN  Truthy(terminatedDate) /\ DateGE(terminatedDate, oneYearAgo(now))

priceBelowPurchase(property) ==
  LET op == originalPrice(property)
  IN  /\ Truthy(op)
      /\ Truthy(property.listPrice)
      /\ property.listPrice.v > 0
      /\ property.listPrice.v < op.v

priceDoublePurchase(property) ==
  LET op == originalPrice(property)
  IN  /\ Truthy(op)
      /\ Truthy(property.listPrice)
      /\ property.listPrice.v > 0
      /\ property.listPrice.v >= op.v * 2

quickClose(property, now) ==
  LET possessionDate == toDate(Timestamp(property, "possessionDate"))
  IN  /\ Truthy(possessionDate)
      /\ DateLE(possessionDate, thirtyDaysFromNow(now))
      /\ DateGE(possessionDate, now)

dealFellThrough(property) ==
  /\ Truthy(Timestamp(property, "conditionalExpiryDate"))
  /\ ~Truthy(Timestamp(property, "closedDate"))

isEstateSale(property) ==
  includes(toLowerCase(descriptionOf(property).s), EstateWord)

\* (a variant: the sixth criterion left out of the disjunction)
filterCallback_noDeal(property, now) ==
  \/ onMarket2Months(property, now)
  \/ hasTerminatedListing(property, now)
  \/ priceBelowPurchase(property)
  \/ priceDoublePurchase(property)
  \/ quickClose(property, now)
  \/ isEstateSale(property)

\* the filter callback's return value (as a truth value)
filterCallback(property, now) ==
  \/ onMarket2Months(property, now)
  \/ hasTerminatedListing(property, now)
  \/ priceBelowPurchase(property)
  \/ priceDoublePurchase(property)
  \/ quickClose(property, now)
  \/ dealFellThrough(property)
  \/ isEstateSale(property)

\* the outcome of a call: a value, or a thrown TypeError
Returned(v) == [threw |-> FALSE, value |-> v]

Threw == [threw |-> TRUE, value |-> <<>>]

\* filterProperties(properties), with `now` the clock reading of its first line
filterProperties(properties, now) ==
  IF \E i \in 1..Len(properties) : Throws(properties[i])
  THEN Threw
  ELSE Returned(SelectSeq(properties, LAMBDA property : filterCallback(property, now)))

(***************************************************************************)
(* Inputs of the pure functions.                                           *)
(***************************************************************************)
LastTick == TicksPerDay - 1

\* clock readings: a leap day, the day after it, a mid-year day, the turns
\* of a year
Nows ==
  { At(2024, 1, 29, LastTick), At(2024, 2, 1, 0), At(2024, 6, 15, LastTick),
    At(2024, 11, 31, LastTick), At(2025, 0, 1, 0), At(2025, 6, 15, 0) }

TicksOfDays(first, last) == (first * TicksPerDay)..(last * TicksPerDay + LastTick)

\* the instants around the boundaries of the criteria at clock reading t:
\* a year before t, t itself, 30 days after t and 60 days before t
InstantsAround(t) ==
  LET d == DayOf(t)
  IN  TicksOfDays(d - 367, d - 364) \cup TicksOfDays(d - 1, d + 1)
      \cup TicksOfDays(d + 29, d + 31) \cup TicksOfDays(d - 61, d - 59)

Instants == UNION { InstantsAround(t) : t \in Nows }

DateValues == {Absent, BadDateStr} \cup { DateStr(t) : t \in Instants }

Prices == {Absent} \cup { Num(n) : n \in (-1)..MaxPrice }

DaysValues == {Absent, Num(0), Num(59), Num(60), Num(61)}

Descriptions ==
  { NoText, Text(<<>>), NonString,
    Text(<<"l", "o", "t">>),
    Text(<<"e", "s", "t", "a", "t", "e">>),
    Text(<<"E", "S", "T", "A", "T", "E">>),
    Text(<<"a", "n", " ", "E", "s", "t", "a", "t", "e", " ", "s", "a", "l", "e">>),
    Text(<<"e", "s", "t", "a", "t">>),
    Text(<<"s", "o", "l", "d", " ", "a", "s", " ", "i", "s">>) }

\* listings that differ from Base in one group of fields
PriceListings ==
  { [Base EXCEPT !.originalPrice = o, !.soldPrice = s, !.listPrice = l] :
      o \in Prices, s \in Prices, l \in Prices }

TerminatedListings ==
  { [Base EXCEPT !.terminatedDate = d, !.hasTimestamps = h] :
      d \in DateValues, h \in BOOLEAN }

PossessionListings ==
  { [Base EXCEPT !.possessionDate = d, !.hasTimestamps = h] :
      d \in DateValues, h \in BOOLEAN }

MarketListings ==
  { [Base EXCEPT !.simpleDaysOnMarket = n, !.listDate = d] :
      n \in DaysValues, d \in DateValues }

AnyDate == DateStr(At(2024, 0, 1, 0))

DealListings ==
  { [Base EXCEPT !.conditionalExpiryDate = c, !.closedDate = d, !.hasTimestamps = h] :
      c \in {Absent, AnyDate}, d \in {Absent, AnyDate}, h \in BOOLEAN }

DescriptionListings ==
  { [Base EXCEPT !.description = d, !.hasDetails = h] :
      d \in Descriptions, h \in BOOLEAN }

\* listings that meet each subset of three criteria at once
MixedListings ==
  { [Base EXCEPT !.simpleDaysOnMarket = n, !.conditionalExpiryDate = c,
                 !.originalPrice = o, !.listPrice = Num(1)] :
      n \in {Absent, Num(60)}, c \in {Absent, AnyDate}, o \in {Absent, Num(2)} }

Listings ==
  PriceListings \cup TerminatedListings \cup PossessionListings
  \cup MarketListings \cup DealListings \cup DescriptionListings
  \cup MixedListings

\* the listings batches are built of: one that meets no criterion, one per
\* criterion (around the mid-year clock reading), and two malformed entries
PoolNow == At(2024, 6, 15, LastTick)

Pool ==
  { Base, NullEntry,
    [Base EXCEPT !.description = NonString],
    [Base EXCEPT !.simpleDaysOnMarket = Num(60)],
    [Base EXCEPT !.terminatedDate = DateStr(oneYearAgo(PoolNow))],
    [Base EXCEPT !.originalPrice = Num(2), !.listPrice = Num(1)],
    [Base EXCEPT !.soldPrice = Num(1), !.listPrice = Num(2)],
    [Base EXCEPT !.possessionDate = DateStr(PoolNow)],
    [Base EXCEPT !.conditionalExpiryDate = AnyDate],
    [Base EXCEPT !.description = Text(<<"E", "s", "t", "a", "t", "e">>)],
    [Base EXCEPT !.hasMap = TRUE, !.latitude = Num(1), !.longitude = Num(1)] }

RECURSIVE SeqsUpTo(_, _)
\* the sequences over S of length at most n
SeqsUpTo(S, n) ==
  IF n = 0 THEN {<<>>}
  ELSE LET shorter == SeqsUpTo(S, n - 1)
       IN  shorter \cup { Append(q, x) : q \in shorter, x \in S }

Batches == SeqsUpTo(Pool, MaxBatch) \cup { <<p>> : p \in Listings }

(***************************************************************************)
(* The pure functions, called on every input.                              *)
(***************************************************************************)
NoCall == [property |-> Base, properties |-> <<>>, now |-> 0]

FnInit ==
  /\ fn = "none"
  /\ args = NoCall
  /\ result = Returned(<<>>)

CallGetBargainTags ==
  \E property \in Listings, now \in Nows :
    /\ fn = "none"
    /\ fn' = "getBargainTags"
    /\ args' = [NoCall EXCEPT !.property = property, !.now = now]
    /\ result' = IF Throws(property) THEN Threw
                 ELSE Returned(getBargainTags(property, now))
    /\ UNCHANGED <<reqVars, uiVars>>

CallFilterProperties ==
  \E properties \in Batches, now \in Nows :
    /\ fn = "none"
    /\ fn' = "filterProperties"
    /\ args' = [NoCall EXCEPT !.properties = properties, !.now = now]
    /\ result' = filterProperties(properties, now)
    /\ UNCHANGED <<reqVars, uiVars>>

(***************************************************************************)
(* The other filters of the handler's switch.                              *)
(***************************************************************************)
SoldAsIs == <<"s", "o", "l", "d", " ", "a", "s", " ", "i", "s">>

filterFixerProperties(properties) ==
  IF \E i \in 1..Len(properties) : Throws(properties[i])
  THEN Threw
  ELSE Returned(SelectSeq(properties,
         LAMBDA property :
           includes(toLowerCase(descriptionOf(property).s), SoldAsIs)))

\* property.map?.<field>
MapField(property, field) ==
  IF property.hasMap THEN property[field] ELSE Absent

\* the callback shared by filterSchoolProperties and filterSubwayProperties
hasCoordinates(property) ==
  Truthy(MapField(property, "latitude")) /\ Truthy(MapField(property, "longitude"))

filterSchoolProperties(properties) ==
  IF \E i \in 1..Len(properties) : properties[i].kind = "null"
  THEN Threw
  ELSE Returned(SelectSeq(properties, hasCoordinates))

filterSubwayProperties(properties) ==
  IF \E i \in 1..Len(properties) : properties[i].kind = "null"
  THEN Threw
  ELSE Returned(SelectSeq(properties, hasCoordinates))

\* coordinates: missing, zero (the equator, the prime meridian), north or
\* east, south or west
Coordinates == {Absent, Num(0), Num(1), Num(-1)}

\* listings that differ from Base in their map, and a null entry
MapListings ==
  { [Base EXCEPT !.hasMap = TRUE, !.latitude = lat, !.longitude = lon] :
      lat \in Coordinates, lon \in Coordinates }
  \cup {Base, NullEntry}

MapBatches == SeqsUpTo(MapListings, MaxBatch)

CallFilterSchoolProperties ==
  \E properties \in MapBatches :
    /\ fn = "none"
    /\ fn' = "filterSchoolProperties"
    /\ args' = [NoCall EXCEPT !.properties = properties]
    /\ result' = filterSchoolProperties(properties)
    /\ UNCHANGED <<reqVars, uiVars>>

CallFilterSubwayProperties ==
  \E properties \in MapBatches :
    /\ fn = "none"
    /\ fn' = "filterSubwayProperties"
    /\ args' = [NoCall EXCEPT !.properties = properties]
    /\ result' = filterSubwayProperties(properties)
    /\ UNCHANGED <<reqVars, uiVars>>

(***************************************************************************)
(* The provider's answer and its envelope.                                 *)
(***************************************************************************)
\* a field of the envelope: absent, an array, or a truthy value of another type
NoField == [kind |-> "absent", items |-> <<>>]

Arr(items) == [kind |-> "array", items |-> items]

OtherValue == [kind |-> "other", items |-> <<>>]

\* the parsed body: a bare array, an object with the three fields, or null
BareArray(items) ==
  [kind |-> "array", items |-> items,
   listings |-> NoField, results |-> NoField, data |-> NoField]

Envelope(l, r, d) ==
  [kind |-> "object", items |-> <<>>, listings |-> l, results |-> r, data |-> d]

NullBody == [kind |-> "null", items |-> <<>>,
             listings |-> NoField, results |-> NoField, data |-> NoField]

\* (a variant: results looked at before listings)
normalize_resultsFirst(data) ==
  IF data.results.kind # "absent" THEN data.results
  ELSE IF data.listings.kind # "absent" THEN data.listings
  ELSE IF data.data.kind # "absent" THEN data.data
  ELSE IF data.kind = "array" THEN Arr(data.items)
  ELSE Arr(<<>>)

\* data.listings || data.results || data.data || (Array.isArray(data) ? data : [])
normalize(data) ==
  IF data.listings.kind # "absent" THEN data.listings
  ELSE IF data.results.kind # "absent" THEN data.results
  ELSE IF data.data.kind # "absent" THEN data.data
  ELSE IF data.kind = "array" THEN Arr(data.items)
  ELSE Arr(<<>>)

\* (a variant: the type taken as given, with no default)
searchTypeOf_asGiven(queryType) == queryType

\* req.query.type || 'bargain'
searchTypeOf(queryType) ==
  IF queryType \in {"undefined", ""} THEN "bargain" ELSE queryType

\* the switch on searchType
applyFilter(type, properties, now) ==
  CASE type = "fixer" -> filterFixerProperties(properties)
    [] type = "school" -> filterSchoolProperties(properties)
    [] type = "subway" -> filterSubwayProperties(properties)
    [] OTHER -> filterProperties(properties, now)

\* one element of formattedProperties (the fields the claims read)
format(property, tags) ==
  [askingPrice |-> OrElse(OrElse(property.listPrice, property.price), Num(0)).v,
   tags |-> tags]

\* the two kinds of response body
ErrorBody(type, upstreamStatus) ==
  [status |-> 500, kind |-> "error", error |-> type,
   upstreamStatus |-> upstreamStatus, properties |-> <<>>]

PropertiesBody(properties) ==
  [status |-> 200, kind |-> "properties", error |-> "",
   upstreamStatus |-> 0, properties |-> properties]

(***************************************************************************)
(* GET /api/properties: one request, from its arrival to its response.     *)
(* The handler runs to its await of fetch(); what follows the provider's   *)
(* answer runs without interruption, but the wall clock moves under it:    *)
(* filterProperties reads the clock once and getBargainTags reads it again *)
(* for every listing it tags.                                              *)
(***************************************************************************)
ApiKeys == {"undefined", "", "key"}

QueryTypes ==
  {"undefined", "", "bargain", "fixer", "school", "subway", "luxury"}

StartClock == PoolNow

\* (a variant: only an undefined key counts as missing)
apiKeyMissing_undefinedOnly(key) == key = "undefined"

\* !apiKey
apiKeyMissing(key) == key \in {"undefined", ""}

NoUpstream == [kind |-> "none", status |-> 0, data |-> NullBody]

\* fetch() rejected: the transport failed
Rejected == [kind |-> "rejected", status |-> 0, data |-> NullBody]

\* the provider answered with a status that is not 2xx
NotOk(status) == [kind |-> "notok", status |-> status, data |-> NullBody]

\* the provider answered 200 with a body that is not JSON
NotJson == [kind |-> "notjson", status |-> 200, data |-> NullBody]

\* the provider answered 200 with a JSON body
Ok(data) == [kind |-> "ok", status |-> 200, data |-> data]

FailureStatuses == {401, 404, 500, 503}

\* the arrays the envelope's fields hold when several are present
FieldValues ==
  { NoField, OtherValue, Arr(<<>>),
    Arr(<<[Base EXCEPT !.simpleDaysOnMarket = Num(60)]>>),
    Arr(<<[Base EXCEPT !.conditionalExpiryDate = AnyDate]>>) }

Bodies ==
  { BareArray(b) : b \in SeqsUpTo(Pool, MaxBatch) }
  \cup { Envelope(l, r, d) : l \in FieldValues, r \in FieldValues, d \in FieldValues }
  \cup { NullBody }

ReqInit ==
  /\ apiKey \in ApiKeys
  /\ clock = StartClock
  /\ pc = "idle"
  /\ searchType = "bargain"
  /\ upstream = NoUpstream
  /\ fetchCount = 0
  /\ listings = NoField
  /\ filteredProperties = <<>>
  /\ formattedProperties = <<>>
  /\ responses = <<>>
  /\ reqQueryType = "undefined"

\* res.status(500).json({error}) or res.json({properties}), ending the request
Respond(body) ==
  /\ responses' = Append(responses, body)
  /\ pc' = "done"

\* the handler up to its first await: the credential check, then fetch()
HandleRequest(queryType) ==
  /\ pc = "idle"
  /\ reqQueryType' = queryType
  /\ searchType' = searchTypeOf(queryType)
  /\ IF apiKeyMissing(apiKey)
     THEN /\ Respond(ErrorBody("config", 0))
          /\ UNCHANGED fetchCount
     ELSE /\ fetchCount' = fetchCount + 1
          /\ pc' = "fetching"
          /\ UNCHANGED responses
  /\ UNCHANGED <<apiKey, clock, upstream, listings, filteredProperties,
                 formattedProperties, fnVars, uiVars>>

\* the wall clock advances while the request is being handled
Tick ==
  /\ pc \in {"fetching", "formatting"}
  /\ clock < StartClock + MaxElapsed
  /\ clock' = clock + 1
  /\ UNCHANGED <<apiKey, pc, searchType, upstream, fetchCount, listings,
                 filteredProperties, formattedProperties, responses,
                 reqQueryType, fnVars, uiVars>>

\* (a variant: a failed call is made again instead of being answered)
UpstreamFails_retry(outcome) ==
  /\ pc = "fetching"
  /\ fetchCount < 2
  /\ upstream' = outcome
  /\ fetchCount' = fetchCount + 1
  /\ UNCHANGED <<apiKey, clock, pc, searchType, listings, filteredProperties,
                 formattedProperties, responses, reqQueryType, fnVars,
                 uiVars>>

\* fetch() rejects, or the provider answers non-success or with no JSON:
\* the catch block answers 500 with the error's message
UpstreamFails(outcome) ==
  /\ pc = "fetching"
  /\ upstream' = outcome
  /\ Respond(ErrorBody(outcome.kind, outcome.status))
  /\ UNCHANGED <<apiKey, clock, searchType, fetchCount, listings,
                 filteredProperties, formattedProperties, reqQueryType,
                 fnVars, uiVars>>

\* the provider answers 200 with JSON: normalize, filter, and either answer
\* (an error, or a list that needs no tags) or go on to tag the listings
UpstreamAnswers(data) ==
  /\ pc = "fetching"
  /\ upstream' = Ok(data)
  /\ LET normalized == normalize(data)
         filtered == applyFilter(searchType, normalized.items, clock)
     IN  IF data.kind = "null" \/ normalized.kind = "other" \/ filtered.threw
         THEN /\ Respond(ErrorBody("TypeError", 0))
              /\ listings' = IF data.kind = "null" THEN NoField ELSE normalized
              /\ UNCHANGED <<filteredProperties, formattedProperties>>
         ELSE /\ listings' = normalized
              /\ filteredProperties' = filtered.value
              /\ IF searchType = "bargain" /\ filtered.value # <<>>
                 THEN /\ pc' = "formatting"
                      /\ formattedProperties' = <<>>
                      /\ UNCHANGED responses
                 ELSE /\ formattedProperties' =
                           [i \in 1..Len(filtered.value) |->
                              format(filtered.value[i], <<>>)]
                      /\ Respond(PropertiesBody(formattedProperties'))
  /\ UNCHANGED <<apiKey, clock, searchType, fetchCount, reqQueryType, fnVars,
                 uiVars>>

\* the map callback on the next filtered listing; after the last one,
\* res.json({properties})
FormatNext ==
  /\ pc = "formatting"
  /\ LET property == filteredProperties[Len(formattedProperties) + 1]
         tags == getBargainTags(property, clock)
     IN  /\ formattedProperties' = Append(formattedProperties, format(property, tags))
         /\ IF Len(formattedProperties') = Len(filteredProperties)
            THEN Respond(PropertiesBody(formattedProperties'))
            ELSE UNCHANGED <<pc, responses>>
  /\ UNCHANGED <<apiKey, clock, searchType, upstream, fetchCount, listings,
                 filteredProperties, reqQueryType, fnVars, uiVars>>

(***************************************************************************)
(* The frontend (frontend/src/App.jsx): one component, its state hooks,    *)
(* the search it starts and the filters it applies to the fetched list.    *)
(* Text is a sequence of characters, as above.                             *)
(***************************************************************************)
\* the longest list of properties the backend answers with
MaxResults == 2

Digits == <<"0", "1", "2", "3", "4", "5", "6", "7", "8", "9">>

IsDigit(c) == \E i \in 1..Len(Digits) : Digits[i] = c

DigitValue(c) == (CHOOSE i \in 1..Len(Digits) : Digits[i] = c) - 1

RECURSIVE DecimalValue(_)
DecimalValue(ds) ==
  IF ds = <<>> THEN 0
  ELSE 10 * DecimalValue(SubSeq(ds, 1, Len(ds) - 1)) + DigitValue(ds[Len(ds)])

\* the number of digits s starts with
LeadingDigits(s) ==
  CHOOSE k \in 0..Len(s) :
    /\ \A i \in 1..k : IsDigit(s[i])
    /\ k = Len(s) \/ ~IsDigit(s[k + 1])

\* parseInt(s): an optional sign and the digits that follow it, the rest of
\* the text ignored; NaN when no digit follows (the value of a number input
\* has no leading white space)
parseInt(s) ==
  LET signed == s # <<>> /\ Head(s) \in {"-", "+"}
      body == IF signed THEN Tail(s) ELSE s
      k == LeadingDigits(body)
      magnitude == DecimalValue(SubSeq(body, 1, k))
  IN  IF k = 0 THEN NaN
      ELSE Num(IF signed /\ Head(s) = "-" THEN 0 - magnitude ELSE magnitude)

\* a >= b and a <= b on numbers: false when b is NaN
NumGE(a, b) == a.kind = "num" /\ b.kind = "num" /\ a.v >= b.v

NumLE(a, b) == a.kind = "num" /\ b.kind = "num" /\ a.v <= b.v

\* one element of data.properties (the fields the filters read)
Property(price, type, tags) ==
  [askingPrice |-> price, propertyType |-> type, tags |-> tags]

Quicky == <<"q", "u", "i", "c", "k", "y">>

EstateSell == <<"e", "s", "t", "a", "t", "e", " ", "s", "e", "l", "l">>

Lot == <<"L", "o", "t">>

Detached == <<"D", "e", "t", "a", "c", "h", "e", "d">>

SemiDetached ==
  <<"S", "e", "m", "i", "-", "D", "e", "t", "a", "c", "h", "e", "d">>

\* the properties the backend answers with: one without a price (askingPrice
\* 0), two whose types contain one another's, one without tags
UIPool ==
  { Property(Num(0), Lot, <<Quicky>>),
    Property(Num(2), Detached, <<Quicky, EstateSell>>),
    Property(Num(3), SemiDetached, <<EstateSell>>),
    Property(Num(MaxPrice), Lot, <<>>) }

\* the bodies of a 200 answer: {properties: [...]}, or an object without
\* that field
NoProperties == [hasProperties |-> FALSE, properties |-> <<>>]

ResponseData ==
  {NoProperties}
  \cup { [hasProperties |-> TRUE, properties |-> l] :
           l \in SeqsUpTo(UIPool, MaxResults) }

\* the values of a number input: empty, whole numbers, a decimal fraction,
\* an exponent, a fraction with no leading digit
PriceTexts ==
  { <<>>, <<"0">>, <<"2">>, <<"3">>, <<"2", ".", "5">>, <<"1", "e", "1">>,
    <<".", "5">> }

\* error: null, or the message of the error caught
NoError == [set |-> FALSE, message |-> ""]

ErrorOf(message) == [set |-> TRUE, message |-> message]

\* errorData.error of a non-ok answer, the default message, the message of
\* a rejected fetch
ErrorMessages ==
  { "API configuration error", "Failed to fetch properties", "Failed to fetch" }

\* the four filters of applyFilters, each applied when its input is truthy
passesMinPrice(p, text) ==
  text # <<>> => (~Truthy(p.askingPrice) \/ NumGE(p.askingPrice, parseInt(text)))

passesMaxPrice(p, text) ==
  text # <<>> => (~Truthy(p.askingPrice) \/ NumLE(p.askingPrice, parseInt(text)))

passesPropertyType(p, type) ==
  type # <<>> => includes(toLowerCase(p.propertyType), toLowerCase(type))

passesTag(p, tag) ==
  tag # <<>> =>
    \E i \in 1..Len(p.tags) : includes(toLowerCase(p.tags[i]), toLowerCase(tag))

\* applyFilters: the value it hands to setFilteredProperties
applyFilters(props, min, max, type, tag) ==
  LET byMin == SelectSeq(props, LAMBDA p : passesMinPrice(p, min))
      byMax == SelectSeq(byMin, LAMBDA p : passesMaxPrice(p, max))
      byType == SelectSeq(byMax, LAMBDA p : passesPropertyType(p, type))
  IN  SelectSeq(byType, LAMBDA p : passesTag(p, tag))

\* (a variant: an effect that never runs applyFilters)
useEffect_never(props, filtered, min, max, type, tag) == filtered

\* the effect run after a render in which a filter or properties changed:
\* filteredProperties after it, given what the handler set it to
useEffect(props, filtered, min, max, type, tag) ==
  IF Len(props) > 0 THEN applyFilters(props, min, max, type, tag) ELSE filtered

\* the options of the two selects
uniquePropertyTypes(props) ==
  { props[i].propertyType : i \in 1..Len(props) } \ {<<>>}

uniqueTags(props) ==
  UNION { { props[i].tags[j] : j \in 1..Len(props[i].tags) } : i \in 1..Len(props) }

\* (a variant: the search button rendered while loading)
searchButtonRendered_whileLoading(props, isLoading) == Len(props) = 0

\* properties.length === 0 && !loading
searchButtonRendered(props, isLoading) == Len(props) = 0 /\ ~isLoading

\* properties.length > 0: the filters, the list and the return-home button
resultsRendered(props) == Len(props) > 0

UIInit ==
  /\ uiProperties = <<>>
  /\ uiFilteredProperties = <<>>
  /\ loading = FALSE
  /\ error = NoError
  /\ minPrice = <<>>
  /\ maxPrice = <<>>
  /\ selectedPropertyType = <<>>
  /\ selectedTag = <<>>
  /\ inFlight = 0

\* a click on the search button: handleSearch up to its await fetch()
ClickSearch ==
  /\ searchButtonRendered(uiProperties, loading)
  /\ loading' = TRUE
  /\ error' = NoError
  /\ uiProperties' = <<>>
  /\ uiFilteredProperties' =
       useEffect(<<>>, <<>>, minPrice, maxPrice, selectedPropertyType, selectedTag)
  /\ inFlight' = inFlight + 1
  /\ UNCHANGED <<minPrice, maxPrice, selectedPropertyType, selectedTag,
                 fnVars, reqVars>>

\* the fetch is answered 200 with JSON: the rest of the try block, finally
FetchSucceeds(data) ==
  /\ inFlight > 0
  /\ inFlight' = inFlight - 1
  /\ LET props == IF data.hasProperties THEN data.properties ELSE <<>>
     IN  /\ uiProperties' = props
         /\ uiFilteredProperties' =
              useEffect(props, props, minPrice, maxPrice, selectedPropertyType,
                        selectedTag)
  /\ loading' = FALSE
  /\ UNCHANGED <<error, minPrice, maxPrice, selectedPropertyType, selectedTag,
                 fnVars, reqVars>>

\* the fetch rejects, is answered non-ok, or its body does not parse: catch,
\* finally
FetchFails(message) ==
  /\ inFlight > 0
  /\ inFlight' = inFlight - 1
  /\ error' = ErrorOf(message)
  /\ loading' = FALSE
  /\ UNCHANGED <<uiProperties, uiFilteredProperties, minPrice, maxPrice,
                 selectedPropertyType, selectedTag, fnVars, reqVars>>

\* onChange of the minimum price input
ChangeMinPrice(text) ==
  /\ resultsRendered(uiProperties)
  /\ minPrice' = text
  /\ uiFilteredProperties' =
       useEffect(uiProperties, uiFilteredProperties, text, maxPrice,
                 selectedPropertyType, selectedTag)
  /\ UNCHANGED <<uiProperties, loading, error, maxPrice, selectedPropertyType,
                 selectedTag, inFlight, fnVars, reqVars>>

\* onChange of the maximum price input
ChangeMaxPrice(text) ==
  /\ resultsRendered(uiProperties)
  /\ maxPrice' = text
  /\ uiFilteredProperties' =
       useEffect(uiProperties, uiFilteredProperties, minPrice, text,
                 selectedPropertyType, selectedTag)
  /\ UNCHANGED <<uiProperties, loading, error, minPrice, selectedPropertyType,
                 selectedTag, inFlight, fnVars, reqVars>>

\* onChange of the property type select
ChangePropertyType(type) ==
  /\ resultsRendered(uiProperties)
  /\ type \in uniquePropertyTypes(uiProperties) \cup {<<>>}
  /\ selectedPropertyType' = type
  /\ uiFilteredProperties' =
       useEffect(uiProperties, uiFilteredProperties, minPrice, maxPrice, type,
                 selectedTag)
  /\ UNCHANGED <<uiProperties, loading, error, minPrice, maxPrice, selectedTag,
                 inFlight, fnVars, reqVars>>

\* onChange of the tag select
ChangeTag(tag) ==
  /\ resultsRendered(uiProperties)
  /\ tag \in uniqueTags(uiProperties) \cup {<<>>}
  /\ selectedTag' = tag
  /\ uiFilteredProperties' =
       useEffect(uiProperties, uiFilteredProperties, minPrice, maxPrice,
                 selectedPropertyType, tag)
  /\ UNCHANGED <<uiProperties, loading, error, minPrice, maxPrice,
                 selectedPropertyType, inFlight, fnVars, reqVars>>

\* a click on the return-home button
ReturnHome ==
  /\ resultsRendered(uiProperties)
  /\ uiProperties' = <<>>
  /\ minPrice' = <<>>
  /\ maxPrice' = <<>>
  /\ selectedPropertyType' = <<>>
  /\ selectedTag' = <<>>
  /\ uiFilteredProperties' = useEffect(<<>>, <<>>, <<>>, <<>>, <<>>, <<>>)
  /\ UNCHANGED <<loading, error, inFlight, fnVars, reqVars>>

Init == ReqInit /\ FnInit /\ UIInit

Next ==
  \/ \E queryType \in QueryTypes : HandleRequest(queryType)
  \/ Tick
  \/ UpstreamFails(Rejected)
  \/ UpstreamFails(NotJson)
  \/ \E status \in FailureStatuses : UpstreamFails(NotOk(status))
  \/ \E data \in Bodies : UpstreamAnswers(data)
  \/ FormatNext

Spec == Init /\ [][Next]_vars

\* the pure functions on every input
FnStart ==
  /\ FnInit
  /\ UIInit
  /\ apiKey = "key"
  /\ clock = StartClock
  /\ pc = "idle"
  /\ searchType = "bargain"
  /\ upstream = NoUpstream
  /\ fetchCount = 0
  /\ listings = NoField
  /\ filteredProperties = <<>>
  /\ formattedProperties = <<>>
  /\ responses = <<>>
  /\ reqQueryType = "undefined"

FnNext ==
  \/ CallGetBargainTags
  \/ CallFilterProperties
  \/ CallFilterSchoolProperties
  \/ CallFilterSubwayProperties

SpecFn == FnStart /\ [][FnNext]_vars

\* the frontend alone, the backend's request not started
UIStart ==
  /\ UIInit
  /\ FnInit
  /\ apiKey = "key"
  /\ clock = StartClock
  /\ pc = "idle"
  /\ searchType = "bargain"
  /\ upstream = NoUpstream
  /\ fetchCount = 0
  /\ listings = NoField
  /\ filteredProperties = <<>>
  /\ formattedProperties = <<>>
  /\ responses = <<>>
  /\ reqQueryType = "undefined"

UINext ==
  \/ ClickSearch
  \/ \E data \in ResponseData : FetchSucceeds(data)
  \/ \E message \in ErrorMessages : FetchFails(message)
  \/ \E text \in PriceTexts : ChangeMinPrice(text)
  \/ \E text \in PriceTexts : ChangeMaxPrice(text)
  \/ \E type \in uniquePropertyTypes(uiProperties) \cup {<<>>} : ChangePropertyType(type)
  \/ \E tag \in uniqueTags(uiProperties) \cup {<<>>} : ChangeTag(tag)
  \/ ReturnHome

SpecUI == UIStart /\ [][UINext]_vars

(***************************************************************************)
(* Properties.                                                             *)
(***************************************************************************)
Has(tags, tag) == \E i \in 1..Len(tags) : tags[i] = tag

TaggedCall == fn = "getBargainTags" /\ ~result.threw

WellFormed(properties) == \A i \in 1..Len(properties) : ~Throws(properties[i])

\* the request has been answered with a list of properties
AnsweredProperties ==
  pc = "done" /\ Len(responses) = 1 /\ responses[1].kind = "properties"

\* C1: filterProperties keeps exactly the listings, in their order, for which
\* at least one of the seven tag conditions holds at the same clock reading:
\* a listing that meets none is dropped, one that meets any is kept.
C1_FilterKeepsIffSomePredicate ==
  (fn = "filterProperties" /\ WellFormed(args.properties)) =>
    /\ ~result.threw
    /\ result.value =
         SelectSeq(args.properties,
                   LAMBDA property : getBargainTags(property, args.now) # <<>>)

\* C1 witness: a batch of two of which one listing is kept and one dropped
C1_Witness ==
  /\ fn = "filterProperties"
  /\ Len(args.properties) = 2
  /\ WellFormed(args.properties)
  /\ Len(result.value) = 1
  /\ result.value[1] = args.properties[2]

\* C2: in bargain mode every listing of a successful response carries at
\* least one tag.
C2_EveryReturnedListingTagged ==
  (AnsweredProperties /\ searchType = "bargain") =>
    \A i \in 1..Len(responses[1].properties) :
      responses[1].properties[i].tags # <<>>

\* C3: with no API credential configured the request is answered at once
\* with an error (a status that is not 2xx, a body with an error field) and
\* the provider is never called.
C3_NoCredentialNoUpstreamCall ==
  (apiKey \in {"undefined", ""}) =>
    /\ fetchCount = 0
    /\ upstream.kind = "none"
    /\ pc \in {"idle", "done"}
    /\ pc = "done" =>
         /\ Len(responses) = 1
         /\ responses[1].kind = "error"
         /\ responses[1].error = "config"
         /\ responses[1].status \notin 200..299

\* C3 witness: a request answered while the key is the empty string
C3_Witness == apiKey = "" /\ pc = "done" /\ Len(responses) = 1

\* C4: when the provider answers non-success or the transport fails, the
\* request gets exactly one response, an error with a status that is not 2xx
\* which carries the provider's status and no properties; the provider is
\* called once, never again.
C4_UpstreamFailureIsOneError ==
  /\ fetchCount <= 1
  /\ Len(responses) <= 1
  /\ upstream.kind \in {"rejected", "notok"} =>
       /\ pc = "done"
       /\ fetchCount = 1
       /\ Len(responses) = 1
       /\ responses[1].kind = "error"
       /\ responses[1].status \notin 200..299
       /\ responses[1].properties = <<>>
       /\ responses[1].error = upstream.kind
       /\ responses[1].upstreamStatus = upstream.status

\* C4 witness: the provider answered 503 and the request is answered
C4_Witness ==
  upstream.kind = "notok" /\ upstream.status = 503 /\ Len(responses) = 1

\* C5: a malformed record in the provider's batch never aborts the request:
\* whenever the provider answers a bargain search with 200 and a batch of
\* records, the request is answered with a list of properties.
C5_MalformedRecordNeverAborts ==
  (pc = "done" /\ searchType = "bargain" /\ upstream.kind = "ok"
     /\ listings.kind = "array") =>
    AnsweredProperties

\* the envelope's candidates, in the order the code looks at them
Candidates(data) ==
  <<data.listings, data.results, data.data,
    IF data.kind = "array" THEN Arr(data.items) ELSE NoField>>

Normalized == upstream.kind = "ok" /\ upstream.data.kind # "null"

\* C6 (as claimed): the extracted list is the first non-empty candidate
\* (of an envelope whose fields, where present, are arrays).
C6_FirstNonEmptyWins ==
  Normalized =>
    LET c == Candidates(upstream.data)
        nonEmpty == { i \in 1..4 : c[i].kind = "array" /\ c[i].items # <<>> }
    IN  (nonEmpty # {} /\ \A i \in 1..4 : c[i].kind # "other") =>
          listings = c[CHOOSE i \in nonEmpty : \A j \in nonEmpty : i <= j]

\* C6 (amended): the extracted list is the first candidate that is present,
\* be it an empty array; with none present it is the empty list.
C6_FirstPresentWins ==
  Normalized =>
    LET c == Candidates(upstream.data)
        present == { i \in 1..4 : c[i].kind # "absent" }
    IN  IF present = {} THEN listings = Arr(<<>>)
        ELSE listings = c[CHOOSE i \in present : \A j \in present : i <= j]

\* C6 witness: listings is an empty array, results holds a listing, and the
\* empty array is what was extracted
C6_Witness ==
  /\ Normalized
  /\ upstream.data.listings = Arr(<<>>)
  /\ upstream.data.results.kind = "array"
  /\ upstream.data.results.items # <<>>
  /\ listings = Arr(<<>>)

\* the instant `now` with its year decreased by one: the same month, day
\* and time of day
YearBefore(now) ==
  At(getFullYear(now) - 1, getMonth(now), getDate(now), TimeOfDay(now))

\* whether the day of `now` exists in the year before (29 February may not)
DayExistsYearBefore(now) == getDate(YearBefore(now)) = getDate(now)

\* the calendar date of an instant, and the order of calendar dates
CalendarDate(t) == <<getFullYear(t), getMonth(t), getDate(t)>>

OnOrAfter(a, b) ==
  \/ a[1] > b[1]
  \/ a[1] = b[1] /\ a[2] > b[2]
  \/ a[1] = b[1] /\ a[2] = b[2] /\ a[3] >= b[3]

\* C7 (as claimed): 'reposted' iff terminatedDate is present and not before
\* the instant a year before now, time of day included.
C7_RepostedSinceSameTimeAYearAgo ==
  (TaggedCall /\ DayExistsYearBefore(args.now)) =>
    LET t == Timestamp(args.property, "terminatedDate")
    IN  Has(result.value, "reposted") <=>
          (t.kind = "date" /\ t.v >= YearBefore(args.now))

\* C7 (amended): 'reposted', and inclusion criterion 2, hold iff
\* terminatedDate is present and its calendar day is on or after the day of
\* now with the year decreased by one, whatever the times of day; a
\* terminatedDate a day after the instant a year before now has the tag, one
\* a day before that instant has not.
C7_RepostedSinceSameDayAYearAgo ==
  TaggedCall =>
    LET t == Timestamp(args.property, "terminatedDate")
        now == args.now
        since == t.kind = "date" /\
                 OnOrAfter(CalendarDate(t.v),
                           <<getFullYear(now) - 1, getMonth(now), getDate(now)>>)
    IN  /\ Has(result.value, "reposted") <=> since
        /\ hasTerminatedListing(args.property, now) <=> since
        /\ (t.kind = "date" /\ t.v = YearBefore(now) + TicksPerDay)
             => Has(result.value, "reposted")
        /\ (t.kind = "date" /\ t.v = YearBefore(now) - TicksPerDay)
             => ~Has(result.value, "reposted")

\* C7 witness: a terminatedDate at midnight of the day a year before a clock
\* reading later that day: before the instant a year ago, and tagged
C7_Witness ==
  /\ TaggedCall
  /\ TimeOfDay(args.now) > 0
  /\ args.property.terminatedDate = DateStr(oneYearAgo(args.now))
  /\ args.property.terminatedDate.v < YearBefore(args.now)
  /\ Has(result.value, "reposted")

\* C8: 'quicky', and inclusion criterion 5, hold iff possessionDate is
\* present and now <= possessionDate <= now + 30 days, both bounds included.
C8_QuickyWithinThirtyDays ==
  TaggedCall =>
    LET d == Timestamp(args.property, "possessionDate")
        now == args.now
        within == d.kind = "date" /\ now <= d.v /\ d.v <= now + 30 * TicksPerDay
    IN  /\ Has(result.value, "quicky") <=> within
        /\ quickClose(args.property, now) <=> within
        /\ (d.kind = "date" /\ d.v = now + 31 * TicksPerDay)
             => ~Has(result.value, "quicky")
        /\ (d.kind = "date" /\ d.v < now) => ~Has(result.value, "quicky")

\* C8 witness: a possessionDate exactly 30 days after now, tagged
C8_Witness ==
  /\ TaggedCall
  /\ args.property.hasTimestamps
  /\ args.property.possessionDate = DateStr(args.now + 30 * TicksPerDay)
  /\ Has(result.value, "quicky")

\* the reference price as the claim has it: originalPrice when it is not
\* null or undefined (0 included), else soldPrice
ClaimedReference(property) ==
  IF property.originalPrice.kind # "absent" THEN property.originalPrice
  ELSE property.soldPrice

\* the reference price as amended: originalPrice when it is present and not
\* 0, else soldPrice
AmendedReference(property) ==
  IF property.originalPrice.kind = "num" /\ property.originalPrice.v # 0
  THEN property.originalPrice
  ELSE property.soldPrice

\* C9 (as claimed): with the reference price originalPrice when present (0
\* included) and soldPrice otherwise, 'selling at a loss' iff the reference
\* is present, listPrice > 0 and listPrice < reference; 'selling at huge
\* profit' iff the same and listPrice >= 2 * reference.
C9_ReferencePriceNullish ==
  TaggedCall =>
    LET ref == ClaimedReference(args.property)
        lp == args.property.listPrice
        pre == ref.kind = "num" /\ lp.kind = "num" /\ lp.v > 0
    IN  /\ Has(result.value, "selling at a loss") <=> (pre /\ lp.v < ref.v)
        /\ Has(result.value, "selling at huge profit") <=> (pre /\ lp.v >= 2 * ref.v)

\* C9 (amended): the reference price is originalPrice when it is present and
\* not 0, and soldPrice otherwise; 'selling at a loss' (criterion 3) iff the
\* reference is present and not 0, listPrice > 0 and listPrice < reference;
\* 'selling at huge profit' (criterion 4) iff the same preconditions hold and
\* listPrice >= 2 * reference.
C9_ReferencePriceTruthy ==
  TaggedCall =>
    LET ref == AmendedReference(args.property)
        lp == args.property.listPrice
        pre == ref.kind = "num" /\ ref.v # 0 /\ lp.kind = "num" /\ lp.v > 0
        loss == pre /\ lp.v < ref.v
        profit == pre /\ lp.v >= 2 * ref.v
    IN  /\ Has(result.value, "selling at a loss") <=> loss
        /\ Has(result.value, "selling at huge profit") <=> profit
        /\ priceBelowPurchase(args.property) <=> loss
        /\ priceDoublePurchase(args.property) <=> profit

\* C9 witness: originalPrice 0 and soldPrice 2 with listPrice 1: soldPrice is
\* the reference and the listing sells at a loss
C9_Witness ==
  /\ TaggedCall
  /\ args.property.originalPrice = Num(0)
  /\ args.property.soldPrice = Num(2)
  /\ args.property.listPrice = Num(1)
  /\ Has(result.value, "selling at a loss")

\* C10: getBargainTags never returns both 'selling at a loss' and 'selling
\* at huge profit', and returns neither when listPrice equals the reference
\* price (under either reading of the reference price).
C10_LossAndProfitExclusive ==
  TaggedCall =>
    LET lp == args.property.listPrice
        neither == /\ ~Has(result.value, "selling at a loss")
                   /\ ~Has(result.value, "selling at huge profit")
    IN  /\ ~(Has(result.value, "selling at a loss")
             /\ Has(result.value, "selling at huge profit"))
        /\ (lp.kind = "num" /\ lp = ClaimedReference(args.property)) => neither
        /\ (lp.kind = "num" /\ lp = AmendedReference(args.property)) => neither

\* C10 witness: listPrice equal to originalPrice, and no tag
C10_Witness ==
  /\ TaggedCall
  /\ args.property.listPrice = Num(2)
  /\ args.property.originalPrice = Num(2)
  /\ result.value = <<>>

\* whole days from instant a to instant b, as Math.floor of the quotient:
\* the one n with n days <= b - a < n + 1 days
WholeDays(a, b) ==
  LET elapsed == b - a
      low == IF elapsed < 0 THEN elapsed - 1 ELSE 0
      high == IF elapsed < 0 THEN 0 ELSE elapsed
  IN  CHOOSE n \in low..high :
        n * TicksPerDay <= elapsed /\ elapsed < (n + 1) * TicksPerDay

\* C11: daysOnMarket is simpleDaysOnMarket whenever that field is present,
\* an explicit 0 included, whatever listDate says; otherwise the whole days
\* from listDate to now when listDate is present, and 0 when it is not; the
\* tag 'long time no sold' is returned, and the filter's first criterion
\* holds, iff daysOnMarket >= 60.
C11_DaysOnMarket ==
  TaggedCall =>
    LET property == args.property
        simple == property.simpleDaysOnMarket
        listed == property.listDate
        days == daysOnMarket(property, args.now)
        tagged == Has(result.value, "long time no sold")
    IN  /\ simple.kind = "num" => days = simple
        /\ (simple.kind = "absent" /\ listed.kind = "date") =>
             days = Num(WholeDays(listed.v, args.now))
        /\ (simple.kind = "absent" /\ listed.kind = "absent") => days = Num(0)
        /\ days.kind = "num" =>
             /\ tagged <=> days.v >= 60
             /\ onMarket2Months(property, args.now) <=> days.v >= 60
        /\ days.kind # "num" => ~tagged

\* C11 witness: an explicit 0 with a listDate more than 60 days old, and no
\* tag
C11_Witness ==
  /\ TaggedCall
  /\ args.property.simpleDaysOnMarket = Num(0)
  /\ args.property.listDate.kind = "date"
  /\ args.now - args.property.listDate.v >= 60 * TicksPerDay
  /\ ~Has(result.value, "long time no sold")

\* C11 witness of the other branch: no simpleDaysOnMarket, a listDate 60
\* days old, and the tag
C11_WitnessListDate ==
  /\ TaggedCall
  /\ args.property.simpleDaysOnMarket = Absent
  /\ args.property.listDate.kind = "date"
  /\ daysOnMarket(args.property, args.now) = Num(60)
  /\ Has(result.value, "long time no sold")

\* a listing that has both a latitude and a longitude, whatever their values
HasBothCoordinates(property) ==
  /\ property.hasMap
  /\ property.latitude.kind # "absent"
  /\ property.longitude.kind # "absent"

CoordinateCall ==
  /\ fn \in {"filterSchoolProperties", "filterSubwayProperties"}
  /\ \A i \in 1..Len(args.properties) : args.properties[i].kind # "null"

\* C12: filterSchoolProperties and filterSubwayProperties pass a listing
\* through iff it has both a latitude and a longitude, whatever their values
\* (0 included); listings missing either are dropped, nothing else is
\* filtered and the order is kept.
C12_KeptIffBothCoordinates ==
  CoordinateCall =>
    /\ ~result.threw
    /\ result.value = SelectSeq(args.properties, HasBothCoordinates)

\* C12, the same for coordinates other than 0: what the code does keep to
C12_KeptIffBothCoordinatesNonZero ==
  (/\ CoordinateCall
   /\ \A i \in 1..Len(args.properties) :
        /\ args.properties[i].latitude # Num(0)
        /\ args.properties[i].longitude # Num(0)) =>
    /\ ~result.threw
    /\ result.value = SelectSeq(args.properties, HasBothCoordinates)

\* C12: a listing on the equator, with a longitude, is dropped
C12_ZeroLatitudeDropped ==
  /\ fn = "filterSchoolProperties"
  /\ Len(args.properties) = 1
  /\ args.properties[1].hasMap
  /\ args.properties[1].latitude = Num(0)
  /\ args.properties[1].longitude = Num(-1)
  /\ result = Returned(<<>>)

\* the handler answered with the listings that `filter` keeps, tagged by
\* getBargainTags when `tagged` and with empty tags lists otherwise (the
\* clock read at some instant of the request)
AnsweredWith(bargainFilter, tagged) ==
  LET instants == StartClock..clock
  IN  /\ Len(formattedProperties) = Len(filteredProperties)
      /\ bargainFilter =>
           \E t \in instants :
             filteredProperties = filterProperties(listings.items, t).value
      /\ \A i \in 1..Len(formattedProperties) :
           IF tagged
           THEN \E t \in instants :
                  formattedProperties[i].tags =
                    getBargainTags(filteredProperties[i], t)
           ELSE formattedProperties[i].tags = <<>>

NamedTypes == {"bargain", "fixer", "school", "subway"}

\* C14 as stated: an absent type is handled as 'bargain' (the bargain
\* filter, tags computed); every string other than the four named types is
\* filtered with the bargain filter and answered with empty tags lists;
\* tags are non-empty only for 'bargain'.
C14_OtherStringsUntagged ==
  AnsweredProperties =>
    /\ reqQueryType = "undefined" => AnsweredWith(TRUE, TRUE)
    /\ (reqQueryType # "undefined" /\ reqQueryType \notin NamedTypes) =>
         AnsweredWith(TRUE, FALSE)
    /\ reqQueryType \notin {"undefined", "bargain"} =>
         \A i \in 1..Len(formattedProperties) :
           formattedProperties[i].tags = <<>>

\* C14: an absent or empty type is handled as 'bargain' (the bargain
\* filter, tags computed); every non-empty string other than the four named
\* types is filtered with the bargain filter and answered with empty tags
\* lists; tags are non-empty only when the effective type is 'bargain'.
C14_FilterAndTagsByType ==
  AnsweredProperties =>
    /\ searchType = (IF reqQueryType \in {"undefined", ""} THEN "bargain"
                     ELSE reqQueryType)
    /\ reqQueryType \in {"undefined", "", "bargain"} => AnsweredWith(TRUE, TRUE)
    /\ reqQueryType \notin ({"undefined", ""} \cup NamedTypes) =>
         AnsweredWith(TRUE, FALSE)
    /\ searchType # "bargain" =>
         \A i \in 1..Len(formattedProperties) :
           formattedProperties[i].tags = <<>>

\* C14 witness: an unknown type, a listing the bargain filter kept, which
\* getBargainTags would tag, answered with no tags
C14_Witness ==
  /\ AnsweredProperties
  /\ reqQueryType = "luxury"
  /\ Len(formattedProperties) > 0
  /\ getBargainTags(filteredProperties[1], clock) # <<>>
  /\ formattedProperties[1].tags = <<>>

\* C14 witness: an empty type, answered with tags
C14_WitnessEmptyType ==
  /\ AnsweredProperties
  /\ reqQueryType = ""
  /\ Len(formattedProperties) > 0
  /\ formattedProperties[1].tags # <<>>

\* C14 witness: an absent type, answered with tags
C14_WitnessAbsentType ==
  /\ AnsweredProperties
  /\ reqQueryType = "undefined"
  /\ Len(formattedProperties) > 0
  /\ formattedProperties[1].tags # <<>>

\* s contains sub, letter case ignored
ContainsIgnoringCase(s, sub) ==
  \E start \in 0..(Len(s) - Len(sub)) :
    \A j \in 1..Len(sub) : toLowerChar(s[start + j]) = toLowerChar(sub[j])

\* a listing with no price: askingPrice missing or 0
NoPrice(p) == p.askingPrice.kind # "num" \/ p.askingPrice.v = 0

\* the AND of the active filters, min and max being parseInt of the inputs
PassesActiveFilters(p) ==
  LET min == parseInt(minPrice)
      max == parseInt(maxPrice)
  IN  /\ minPrice # <<>> =>
           (NoPrice(p) \/ (min.kind = "num" /\ p.askingPrice.v >= min.v))
      /\ maxPrice # <<>> =>
           (NoPrice(p) \/ (max.kind = "num" /\ p.askingPrice.v <= max.v))
      /\ selectedPropertyType # <<>> =>
           ContainsIgnoringCase(p.propertyType, selectedPropertyType)
      /\ selectedTag # <<>> =>
           \E i \in 1..Len(p.tags) : ContainsIgnoringCase(p.tags[i], selectedTag)

NoActiveFilter ==
  minPrice = <<>> /\ maxPrice = <<>> /\ selectedPropertyType = <<>>
  /\ selectedTag = <<>>

C13_WitnessSubstring ==
  /\ selectedPropertyType = Detached
  /\ Len(uiFilteredProperties) > 0
  /\ uiFilteredProperties[1].propertyType = SemiDetached

\* C15: at most one fetch is in flight, loading is true exactly while one
\* is, an error is never set together with a non-empty properties list, and
\* once no fetch is in flight (every started search has completed) loading
\* is false.
C15_OneFetchLoadingAndError ==
  /\ inFlight \in {0, 1}
  /\ loading <=> inFlight = 1
  /\ ~(error.set /\ Len(uiProperties) > 0)
  /\ inFlight = 0 => ~loading

\* C15 witness: a search that failed: its error set, loading false, nothing
\* in flight
C15_Witness ==
  /\ error.set
  /\ ~loading
  /\ inFlight = 0
  /\ uiProperties = <<>>

\* C15 witness: a search started: its fetch in flight, loading true, no
\* error set
C15_WitnessInFlight ==
  /\ inFlight = 1
  /\ loading
  /\ ~error.set

====
